---- MODULE Spec2Model ----
(***************************************************************************)
(* A model of src/main.py: the overlay live wallpaper.                     *)
(*                                                                         *)
(*   - the settings store (load_config / save_config over a JSON file),    *)
(*   - WallpaperWindow: the background surface and the VLC player it       *)
(*     drives,                                                             *)
(*   - ControlPanel: the handlers of the control window, tray and hotkey,  *)
(*   - main(): the startup sequence.                                       *)
(*                                                                         *)
(* Playback rates are Python floats in the source; here they are held in   *)
(* tenths (0.5 -> 5, 1.0 -> 10, 1.5 -> 15, 2.0 -> 20, 3.0 -> 30).          *)
(*                                                                         *)
(* The VLC player is not part of the source. It is modelled at the calls   *)
(* the source makes on it, with libvlc 3 behaviour: set_media drops the    *)
(* running input, play starts asynchronously, pause toggles, stop keeps    *)
(* the media. Its calls are taken to return normally. The player keeps the *)
(* rate it is given; the window on its own (SurfaceSpec) is also explored  *)
(* against a player that changes its rate between two calls.               *)
(***************************************************************************)
EXTENDS Integers, Sequences, FiniteSets, TLC

VARIABLES
    pc,        \* position of the process: main()'s steps, running, crashed, quit
    file,      \* content of CONFIG_PATH on disk
    writable,  \* whether CONFIG_PATH can be written (if not, no file is there)
    cfg,       \* the config dict shared by WallpaperWindow and ControlPanel
    w,         \* WallpaperWindow: its fields and the state of its VLC player
    ui,        \* ControlPanel: its widgets, the tray and the hotkey registration
    queue,     \* queued cross-thread invocations waiting for the UI thread
    last       \* the operation that produced this state (history)

vars == <<pc, file, writable, cfg, w, ui, queue, last>>

\* Longest queue of pending hotkey invocations the model follows.
MaxQueue == 2
\* Most keys a settings file found at startup holds.
MaxKeys == 2

----------------------------------------------------------------------------
(* Values.  A Python value held in the config dict, and a JSON value held  *)
(* in the settings file.  Both carry a tag t, a number n (tenths) and a    *)
(* string s.                                                               *)

PyFloat(n) == [t |-> "float", n |-> n, s |-> ""]
PyStr(s) == [t |-> "str", n |-> 0, s |-> s]
PyNone == [t |-> "NoneType", n |-> 0, s |-> ""]

JNum(n) == [t |-> "number", n |-> n, s |-> ""]
JStr(s) == [t |-> "string", n |-> 0, s |-> s]
JNull == [t |-> "null", n |-> 0, s |-> ""]
\* A key the JSON object does not have.
JAbsent == [t |-> "absent", n |-> 0, s |-> ""]

Keys == {"last_video", "default_video", "speed", "aspect_mode"}

\* The file system: the video files that exist, and one that does not.
Existing == {"a.mp4", "b.mp4"}
Paths == Existing \cup {"gone.mp4"}
exists(path) == path \in Existing

\* json.load's conversion of one JSON value.
json_load_value(j) ==
    CASE j.t = "number" -> PyFloat(j.n)
      [] j.t = "string" -> PyStr(j.s)
      [] OTHER -> PyNone

\* json.dump's conversion of one Python value.
json_dump_value(v) ==
    CASE v.t = "float" -> JNum(v.n)
      [] v.t = "str" -> JStr(v.s)
      [] OTHER -> JNull

DEFAULT_CONFIG ==
    [last_video |-> PyStr(""), default_video |-> PyStr(""),
     speed |-> PyFloat(10), aspect_mode |-> PyStr("fit")]

\* A settings file: missing, not JSON, JSON but not an object, or an object.
NoRecord == [k \in Keys |-> JAbsent]
MissingFile == [kind |-> "missing", rec |-> NoRecord]
CorruptFile == [kind |-> "corrupt", rec |-> NoRecord]
NonRecordFile == [kind |-> "nonrecord", rec |-> NoRecord]
RecordFile(rec) == [kind |-> "record", rec |-> rec]

\* load_config with the merge the other way round: {**cfg, **DEFAULT_CONFIG}.
load_config_defaults_win(f) == DEFAULT_CONFIG

\* json.load, then {**DEFAULT_CONFIG, **cfg}; any exception gives the defaults.
load_config(f) ==
    IF f.kind = "missing" THEN DEFAULT_CONFIG
    ELSE IF f.kind = "corrupt" THEN DEFAULT_CONFIG
    ELSE IF f.kind = "nonrecord" THEN DEFAULT_CONFIG
    ELSE [k \in Keys |-> IF f.rec[k] = JAbsent THEN DEFAULT_CONFIG[k]
                         ELSE json_load_value(f.rec[k])]

\* save_config that keeps the keys the file already holds.
save_config_keeps_old_keys(c, f, canWrite) ==
    IF canWrite
    THEN RecordFile([k \in Keys |->
             IF f.kind = "record" /\ f.rec[k] /= JAbsent THEN f.rec[k]
             ELSE json_dump_value(c[k])])
    ELSE f

\* json.dump into CONFIG_PATH; a failed write is swallowed.
save_config(c, f, canWrite) ==
    IF canWrite THEN RecordFile([k \in Keys |-> json_dump_value(c[k])])
    ELSE f

\* Python's float(v): a float, the float a numeric string spells, or an error.
float_ok(v) ==
    \/ v.t = "float"
    \/ v.t = "str" /\ v.s \in {"0.5", "1.5", "2.0", "3.0"}

float(v) ==
    IF v.t = "float" THEN v.n
    ELSE CASE v.s = "0.5" -> 5
           [] v.s = "1.5" -> 15
           [] v.s = "2.0" -> 20
           [] v.s = "3.0" -> 30
           [] OTHER -> 10

\* Python's truth value of v, as in `if default_video and ...`.
truthy(v) ==
    CASE v.t = "float" -> v.n /= 0
      [] v.t = "str" -> v.s /= ""
      [] OTHER -> FALSE

\* Path(v) accepts a str only.
Path_ok(v) == v.t = "str"

----------------------------------------------------------------------------
(* The VLC media player, as WallpaperWindow uses it.  p_state is libvlc's  *)
(* player state; every call is logged in cmds, the commands sent to the    *)
(* player by the operation under way.                                      *)

NoMedia == "None"
NoAspect == "None"

Cmd(c, n, s) == [c |-> c, n |-> n, s |-> s]
Sent(x, c, n, s) == [x EXCEPT !.cmds = Append(@, Cmd(c, n, s))]

\* player.set_media(media): the running input is released.
player_set_media(x, m) ==
    [Sent(x, "set_media", 0, m) EXCEPT !.p_media = m, !.p_state = "NothingSpecial"]

\* player.play(): resumes a paused input, or starts to open the media.
player_play(x) ==
    [Sent(x, "play", 0, "") EXCEPT !.p_state =
        IF x.p_media = NoMedia THEN @
        ELSE IF @ = "Paused" THEN "Playing"
        ELSE IF @ \in {"Playing", "Opening"} THEN @
        ELSE "Opening"]

\* player.pause(): libvlc_media_player_pause toggles pause.
player_pause(x) ==
    [Sent(x, "pause", 0, "") EXCEPT !.p_state =
        IF @ = "Playing" THEN "Paused"
        ELSE IF @ = "Paused" THEN "Playing"
        ELSE @]

\* player.stop(): the input is released; the player keeps its media.
player_stop(x) ==
    [Sent(x, "stop", 0, "") EXCEPT !.p_state = "Stopped"]

player_set_rate(x, r) ==
    [Sent(x, "set_rate", r, "") EXCEPT !.p_rate = r]

player_video_set_scale(x, f) ==
    [Sent(x, "video_set_scale", f, "") EXCEPT !.p_scale = f]

player_video_set_aspect_ratio(x, a) ==
    [Sent(x, "video_set_aspect_ratio", 0, a) EXCEPT !.p_aspect = a]

player_set_hwnd(x) ==
    [Sent(x, "set_hwnd", 0, "") EXCEPT !.p_hwnd = TRUE]

player_is_playing(x) == x.p_state = "Playing"

----------------------------------------------------------------------------
(* WallpaperWindow.                                                        *)

\* __init__, given a config whose speed float() accepts.
WallpaperWindow_init(c) ==
    [shown |-> FALSE, timer |-> FALSE,
     media |-> NoMedia,
     aspect_mode |-> c.aspect_mode,
     speed |-> float(c.speed),
     current_video_path |-> "",
     was_playing |-> FALSE, manually_paused |-> FALSE,
     p_state |-> "NothingSpecial", p_media |-> NoMedia, p_rate |-> 10,
     p_scale |-> 0, p_aspect |-> NoAspect, p_hwnd |-> FALSE,
     cmds |-> <<>>]

\* showEvent that leaves the player unbound.
showEvent_without_bind(x) ==
    [x EXCEPT !.shown = TRUE, !.timer = TRUE]

\* showEvent: click-through, bottom of the z-order, bind VLC, start the timer.
showEvent(x) ==
    [player_set_hwnd([x EXCEPT !.shown = TRUE]) EXCEPT !.timer = TRUE]

apply_aspect_mode(x) ==
    IF x.aspect_mode = PyStr("fit")
    THEN player_video_set_aspect_ratio(player_video_set_scale(x, 1), NoAspect)
    ELSE player_video_set_aspect_ratio(player_video_set_scale(x, 0), "16:9")

\* load(path): raises FileNotFoundError, or binds the media.
load_raises(path) == ~exists(path)

\* load with the path recorded before the existence check.
load_records_path_first(x, path) ==
    LET a == [x EXCEPT !.current_video_path = path, !.media = path]
    IN  IF load_raises(path) THEN [x EXCEPT !.current_video_path = path]
        ELSE apply_aspect_mode(
                 IF a.speed /= 10
                 THEN player_set_rate(player_set_media(a, path), a.speed)
                 ELSE player_set_media(a, path))

\* load that also starts playback.
load_then_plays(x, path) ==
    LET a == [x EXCEPT !.current_video_path = path, !.media = path]
    IN  IF load_raises(path) THEN x
        ELSE player_play(apply_aspect_mode(
                 IF a.speed /= 10
                 THEN player_set_rate(player_set_media(a, path), a.speed)
                 ELSE player_set_media(a, path)))

load(x, path) ==
    IF load_raises(path) THEN x
    ELSE LET a == [x EXCEPT !.current_video_path = path, !.media = path]
             b == player_set_media(a, path)
             c == IF b.speed /= 10 THEN player_set_rate(b, b.speed) ELSE b
         IN  apply_aspect_mode(c)

play(x) ==
    IF x.media = NoMedia THEN x
    ELSE LET a == [player_play(x) EXCEPT !.was_playing = TRUE,
                                         !.manually_paused = FALSE]
         IN  IF a.speed /= 10 THEN player_set_rate(a, a.speed) ELSE a

pause(x) ==
    [player_pause(x) EXCEPT !.was_playing = FALSE, !.manually_paused = TRUE]

stop(x) ==
    [player_stop(x) EXCEPT !.current_video_path = "",
                           !.was_playing = FALSE, !.manually_paused = FALSE]

\* set_speed with the guard load and play carry: nothing is sent for 1.0.
set_speed_skips_default(x, speed) ==
    IF speed /= 10 THEN player_set_rate([x EXCEPT !.speed = speed], speed)
    ELSE [x EXCEPT !.speed = speed]

set_speed(x, speed) ==
    player_set_rate([x EXCEPT !.speed = speed], speed)

toggle_aspect(x) ==
    apply_aspect_mode([x EXCEPT !.aspect_mode =
        IF @ = PyStr("fit") THEN PyStr("keep_aspect") ELSE PyStr("fit")])

is_playing(x) == player_is_playing(x)

\* The fields of the window and the state of its player, without the log.
Surface(x) == [x EXCEPT !.cmds = <<>>]
\* The operation under way starts with an empty log.
Begin(x) == [x EXCEPT !.cmds = <<>>]

----------------------------------------------------------------------------
(* ControlPanel.                                                           *)

\* Path(p).name and the f-string rendering of a speed.
name_of(p) == p
speed_text(n) ==
    CASE n = 5 -> "0.5" [] n = 10 -> "1.0" [] n = 15 -> "1.5" [] OTHER -> "2.0"
mode_text(m) == IF m = PyStr("fit") THEN "Fit" ELSE "KeepAspect"

\* {0.5: 0, 1.0: 1, 1.5: 2, 2.0: 3}.get(speed, 1)
index_of_speed(n) ==
    CASE n = 5 -> 0 [] n = 10 -> 1 [] n = 15 -> 2 [] n = 20 -> 3 [] OTHER -> 1
\* {0: 0.5, 1: 1.0, 2: 1.5, 3: 2.0}.get(index, 1.0)
speed_of_index(i) ==
    CASE i = 0 -> 5 [] i = 1 -> 10 [] i = 2 -> 15 [] i = 3 -> 20 [] OTHER -> 10

\* The widgets as __init__ builds them, before the startup load.
widgets(c, hk) ==
    [btn_playpause_text |-> "Play", btn_playpause_enabled |-> FALSE,
     btn_setdefault_enabled |-> FALSE,
     btn_aspect_text |-> mode_text(c.aspect_mode),
     speed_index |-> index_of_speed(float(c.speed)),
     status |-> "Idle", visible |-> FALSE, hotkey |-> hk]

\* The startup choice with last_video tried before default_video.
startup_video_prefers_last(c) ==
    IF truthy(c.last_video) /\ exists(c.last_video.s) THEN c.last_video.s
    ELSE IF truthy(c.default_video) /\ exists(c.default_video.s)
         THEN c.default_video.s
    ELSE ""

\* The video __init__ loads at startup: "" when it loads none.
startup_video(c) ==
    IF truthy(c.default_video) /\ exists(c.default_video.s) THEN c.default_video.s
    ELSE IF truthy(c.last_video) /\ exists(c.last_video.s) THEN c.last_video.s
    ELSE ""

\* Path(v) outside the try blocks raises TypeError for a value that is no str.
ControlPanel_init_raises(c) ==
    \/ truthy(c.default_video) /\ ~Path_ok(c.default_video)
    \/ /\ ~(truthy(c.default_video) /\ exists(c.default_video.s))
       /\ truthy(c.last_video) /\ ~Path_ok(c.last_video)

\* __init__: hk tells whether keyboard.add_hotkey succeeded.
ControlPanel_init(c, x, hk) ==
    LET v == startup_video(c)
        fromDefault == truthy(c.default_video) /\ exists(c.default_video.s)
        u == widgets(c, hk)
    IN  IF v = "" THEN [ui |-> u, w |-> x]
        ELSE [ui |-> [u EXCEPT !.btn_playpause_enabled = TRUE,
                               !.btn_playpause_text = "Pause",
                               !.btn_setdefault_enabled = TRUE,
                               !.status = (IF fromDefault THEN "Loaded default: "
                                           ELSE "Loaded: ") \o name_of(v)],
              w |-> play(load(x, v))]

\* on_load with the path the file dialog returned ("" when cancelled).
on_load(c, f, canWrite, x, u, path) ==
    IF path = "" THEN [cfg |-> c, file |-> f, w |-> x, ui |-> u, exc |-> FALSE]
    ELSE LET c1 == [c EXCEPT !.last_video = PyStr(path)]
             f1 == save_config(c1, f, canWrite)
         IN  IF load_raises(path)
             THEN [cfg |-> c1, file |-> f1, w |-> load(x, path), ui |-> u,
                   exc |-> TRUE]
             ELSE [cfg |-> c1, file |-> f1, w |-> play(load(x, path)),
                   ui |-> [u EXCEPT !.btn_playpause_enabled = TRUE,
                                    !.btn_setdefault_enabled = TRUE,
                                    !.btn_playpause_text = "Pause",
                                    !.status = "Playing: " \o name_of(path)],
                   exc |-> FALSE]

on_playpause(x, u) ==
    IF is_playing(x)
    THEN [w |-> pause(x),
          ui |-> [u EXCEPT !.btn_playpause_text = "Play", !.status = "Paused"]]
    ELSE [w |-> play(x),
          ui |-> [u EXCEPT !.btn_playpause_text = "Pause", !.status = "Playing"]]

\* on_set_default taking the video from the config's last_video.
on_set_default_uses_last_video(c, f, canWrite, x, u) ==
    IF x.current_video_path /= ""
    THEN LET c1 == [c EXCEPT !.default_video = c.last_video]
         IN  [cfg |-> c1, file |-> save_config(c1, f, canWrite),
              ui |-> [u EXCEPT
                  !.status = "Default set: " \o name_of(x.current_video_path)]]
    ELSE [cfg |-> c, file |-> f, ui |-> u]

on_set_default(c, f, canWrite, x, u) ==
    IF x.current_video_path /= ""
    THEN LET c1 == [c EXCEPT !.default_video = PyStr(x.current_video_path)]
         IN  [cfg |-> c1, file |-> save_config(c1, f, canWrite),
              ui |-> [u EXCEPT
                  !.status = "Default set: " \o name_of(x.current_video_path)]]
    ELSE [cfg |-> c, file |-> f, ui |-> u]

on_speed_change(c, f, canWrite, x, u, index) ==
    LET speed == speed_of_index(index)
        c1 == [c EXCEPT !.speed = PyFloat(speed)]
    IN  [cfg |-> c1, file |-> save_config(c1, f, canWrite),
         w |-> set_speed(x, speed),
         ui |-> [u EXCEPT !.speed_index = index,
                          !.status = "Speed: " \o speed_text(speed) \o "x"]]

\* on_aspect_toggle saving the config before it records the new mode.
on_aspect_toggle_saves_first(c, f, canWrite, x, u) ==
    LET x1 == toggle_aspect(x)
        new_mode == x1.aspect_mode
        c1 == [c EXCEPT !.aspect_mode = new_mode]
    IN  [cfg |-> c1, file |-> save_config(c, f, canWrite), w |-> x1,
         ui |-> [u EXCEPT !.btn_aspect_text = mode_text(new_mode)]]

on_aspect_toggle(c, f, canWrite, x, u) ==
    LET x1 == toggle_aspect(x)
        new_mode == x1.aspect_mode
        c1 == [c EXCEPT !.aspect_mode = new_mode]
    IN  [cfg |-> c1, file |-> save_config(c1, f, canWrite), w |-> x1,
         ui |-> [u EXCEPT !.btn_aspect_text = mode_text(new_mode)]]

\* The hotkey callback calling on_aspect_toggle itself, on the listener's
\* thread.
on_hotkey_toggle_aspect_direct(c, f, canWrite, x, u, q) ==
    LET r == on_aspect_toggle(c, f, canWrite, x, u)
    IN  [cfg |-> r.cfg, file |-> r.file, w |-> r.w, ui |-> r.ui, queue |-> q]

\* _on_hotkey_toggle_aspect, on the keyboard listener's thread: one queued
\* invocation of _hotkey_toggle_aspect_gui, nothing else.
on_hotkey_toggle_aspect(c, f, canWrite, x, u, q) ==
    [cfg |-> c, file |-> f, w |-> x, ui |-> u,
     queue |-> Append(q, "_hotkey_toggle_aspect_gui")]

\* _hotkey_toggle_aspect_gui, on the UI thread.
hotkey_toggle_aspect_gui(c, f, canWrite, x, u) ==
    on_aspect_toggle(c, f, canWrite, x, u)

show_panel(u) == [u EXCEPT !.visible = TRUE]

hide_to_tray(u) ==
    [u EXCEPT !.visible = FALSE]

\* quit_app with both cleanup calls in one try block: a failure of the first
\* skips the second.
quit_app_one_try(x, u, cleared) ==
    IF cleared
    THEN [ui |-> [u EXCEPT !.hotkey = FALSE], w |-> stop(x),
          steps |-> <<"clear_all_hotkeys", "stop", "quit">>]
    ELSE [ui |-> u, w |-> x, steps |-> <<"clear_all_hotkeys", "quit">>]

\* quit_app: keyboard.clear_all_hotkeys(), wallpaper.stop(), each in its own
\* try block, then QApplication.quit(). cleared tells whether the first call
\* returned normally.
quit_app(x, u, cleared) ==
    [ui |-> IF cleared THEN [u EXCEPT !.hotkey = FALSE] ELSE u,
     w |-> stop(x),
     steps |-> <<"clear_all_hotkeys", "stop", "quit">>]

\* closeEvent that stops the video before it hides the panel.
closeEvent_stops_playback(x, u) ==
    [w |-> stop(x), ui |-> hide_to_tray(u), accepted |-> FALSE]

\* closeEvent: event.ignore(), then hide_to_tray().
closeEvent(x, u) ==
    [w |-> x, ui |-> hide_to_tray(u), accepted |-> FALSE]

\* main(): app.setQuitOnLastWindowClosed(False)
quitOnLastWindowClosed == FALSE

----------------------------------------------------------------------------
(* The process: main(), then the event loop.                               *)

\* The settings files the process may find at startup.
LastValues == {JAbsent, JStr("a.mp4"), JStr("gone.mp4"), JNum(7)}
DefaultValues == {JAbsent, JStr("b.mp4"), JStr("gone.mp4"), JNum(7)}
SpeedValues ==
    {JAbsent, JNum(5), JNum(15), JNum(30), JStr("2.0"), JStr("fast"), JNull}
AspectValues == {JAbsent, JStr("fit"), JStr("keep_aspect"), JStr("stretch")}
KeysIn(r) == {k \in Keys : r[k] /= JAbsent}
Files ==
    {MissingFile, CorruptFile, NonRecordFile} \cup
    {RecordFile(r) : r \in
        {q \in [last_video : LastValues, default_video : DefaultValues,
                speed : SpeedValues, aspect_mode : AspectValues] :
            Cardinality(KeysIn(q)) <= MaxKeys}}

\* What the file dialog can return; the rates a caller can pass to set_speed.
DialogPaths == Paths \cup {""}
Indexes == 0 .. 3
Rates == {5, 10, 15, 20}
CallerRates == Rates \cup {30}

\* Placeholders for the objects main() has not built yet.
NoWindow == WallpaperWindow_init(DEFAULT_CONFIG)
NoPanel == widgets(DEFAULT_CONFIG, FALSE)

\* steps: the calls a handler made, in order, where a claim is about the order.
Hist(op, s, n, exc, pre, fresh) ==
    [op |-> op, s |-> s, n |-> n, exc |-> exc, pre |-> pre, fresh |-> fresh,
     steps |-> <<>>]

Init ==
    /\ pc = "start"
    /\ file \in Files
    /\ writable \in BOOLEAN
    /\ ~writable => file = MissingFile
    /\ cfg = DEFAULT_CONFIG
    /\ w = NoWindow
    /\ ui = NoPanel
    /\ queue = <<>>
    /\ last = Hist("init", "", 0, FALSE, NoWindow, FALSE)

\* cfg = load_config()
MainLoadConfig ==
    /\ pc = "start"
    /\ cfg' = load_config(file)
    /\ pc' = "config_loaded"
    /\ last' = Hist("load_config", "", 0, FALSE, NoWindow, FALSE)
    /\ UNCHANGED <<file, writable, w, ui, queue>>

\* wallpaper = WallpaperWindow(cfg): float() of a bad speed ends the process.
MainCreateWallpaper ==
    /\ pc = "config_loaded"
    /\ IF float_ok(cfg.speed)
       THEN /\ w' = WallpaperWindow_init(cfg)
            /\ pc' = "wallpaper_created"
            /\ last' = Hist("WallpaperWindow", "", 0, FALSE, NoWindow, FALSE)
       ELSE /\ pc' = "crashed"
            /\ last' = Hist("WallpaperWindow", "", 0, TRUE, NoWindow, FALSE)
            /\ UNCHANGED w
    /\ UNCHANGED <<file, writable, cfg, ui, queue>>

\* wallpaper.showFullScreen(), which delivers the show event.
MainShowWallpaper ==
    /\ pc = "wallpaper_created"
    /\ w' = showEvent(Begin(w))
    /\ pc' = "wallpaper_shown"
    /\ last' = Hist("showEvent", "", 0, FALSE, NoWindow, FALSE)
    /\ UNCHANGED <<file, writable, cfg, ui, queue>>

\* panel = ControlPanel(wallpaper, cfg)
MainCreatePanel ==
    /\ pc = "wallpaper_shown"
    /\ \E hk \in BOOLEAN :
         IF ControlPanel_init_raises(cfg)
         THEN /\ pc' = "crashed"
              /\ last' = Hist("ControlPanel", "", 0, TRUE, NoWindow, FALSE)
              /\ UNCHANGED <<w, ui>>
         ELSE LET r == ControlPanel_init(cfg, Begin(w), hk)
              IN  /\ w' = r.w
                  /\ ui' = r.ui
                  /\ pc' = "panel_created"
                  /\ last' = Hist("ControlPanel", startup_video(cfg), 0, FALSE,
                                  Begin(w), FALSE)
    /\ UNCHANGED <<file, writable, cfg, queue>>

\* panel.show(); app.exec()
MainShowPanel ==
    /\ pc = "panel_created"
    /\ ui' = show_panel(ui)
    /\ pc' = "running"
    /\ last' = Hist("show", "", 0, FALSE, NoWindow, last.fresh)
    /\ UNCHANGED <<file, writable, cfg, w, queue>>

\* "Load MP4" button or tray entry.
OnLoad(path) ==
    /\ pc = "running"
    /\ LET r == on_load(cfg, file, writable, Begin(w), ui, path)
       IN  /\ cfg' = r.cfg
           /\ file' = r.file
           /\ w' = r.w
           /\ ui' = r.ui
           /\ last' = Hist("on_load", path, 0, r.exc, NoWindow, FALSE)
    /\ UNCHANGED <<pc, writable, queue>>

\* Play/Pause: the button once enabled and visible, or the tray entry.
OnPlayPause ==
    /\ pc = "running"
    /\ LET r == on_playpause(Begin(w), ui)
       IN  /\ w' = r.w
           /\ ui' = r.ui
           /\ last' = Hist("on_playpause", "", 0, FALSE, NoWindow, FALSE)
    /\ UNCHANGED <<pc, file, writable, cfg, queue>>

\* "Set as Default" button.
OnSetDefault ==
    /\ pc = "running"
    /\ ui.visible /\ ui.btn_setdefault_enabled
    /\ LET r == on_set_default(cfg, file, writable, Begin(w), ui)
       IN  /\ cfg' = r.cfg
           /\ file' = r.file
           /\ ui' = r.ui
           /\ w' = Begin(w)
           /\ last' = Hist("on_set_default", "", 0, FALSE, NoWindow, last.fresh)
    /\ UNCHANGED <<pc, writable, queue>>

\* The speed combo box: currentIndexChanged fires when the index changes.
OnSpeedChange(index) ==
    /\ pc = "running"
    /\ ui.visible /\ index /= ui.speed_index
    /\ LET r == on_speed_change(cfg, file, writable, Begin(w), ui, index)
       IN  /\ cfg' = r.cfg
           /\ file' = r.file
           /\ w' = r.w
           /\ ui' = r.ui
           /\ last' = Hist("on_speed_change", "", index, FALSE, NoWindow, last.fresh)
    /\ UNCHANGED <<pc, writable, queue>>

\* The aspect button or the tray entry.
OnAspectToggle ==
    /\ pc = "running"
    /\ LET r == on_aspect_toggle(cfg, file, writable, Begin(w), ui)
       IN  /\ cfg' = r.cfg
           /\ file' = r.file
           /\ w' = r.w
           /\ ui' = r.ui
           /\ last' = Hist("on_aspect_toggle", "", 0, FALSE, NoWindow, last.fresh)
    /\ UNCHANGED <<pc, writable, queue>>

\* Ctrl+R on the keyboard listener's thread: a queued invocation, nothing else.
HotkeyPress ==
    /\ pc = "running"
    /\ ui.hotkey
    /\ Len(queue) < MaxQueue
    /\ LET r == on_hotkey_toggle_aspect(cfg, file, writable, Begin(w), ui, queue)
       IN  /\ cfg' = r.cfg
           /\ file' = r.file
           /\ w' = r.w
           /\ ui' = r.ui
           /\ queue' = r.queue
    /\ last' = Hist("_on_hotkey_toggle_aspect", "", 0, FALSE, NoWindow, last.fresh)
    /\ UNCHANGED <<pc, writable>>

\* The UI thread runs the oldest queued invocation.
HotkeyDispatch ==
    /\ pc = "running"
    /\ queue /= <<>>
    /\ queue' = Tail(queue)
    /\ LET r == hotkey_toggle_aspect_gui(cfg, file, writable, Begin(w), ui)
       IN  /\ cfg' = r.cfg
           /\ file' = r.file
           /\ w' = r.w
           /\ ui' = r.ui
           /\ last' = Hist("_hotkey_toggle_aspect_gui", "", 0, FALSE, NoWindow,
                           last.fresh)
    /\ UNCHANGED <<pc, writable>>

\* "Minimize to Tray".
HideToTray ==
    /\ pc = "running"
    /\ ui.visible
    /\ ui' = hide_to_tray(ui)
    /\ w' = Begin(w)
    /\ last' = Hist("hide_to_tray", "", 0, FALSE, NoWindow, last.fresh)
    /\ UNCHANGED <<pc, file, writable, cfg, queue>>

\* The close box of the control window. An accepted close event closes the
\* last primary window, which ends the event loop if Qt is set to quit then.
CloseEvent ==
    /\ pc = "running"
    /\ ui.visible
    /\ LET r == closeEvent(Begin(w), ui)
       IN  /\ ui' = r.ui
           /\ w' = r.w
           /\ pc' = IF r.accepted /\ quitOnLastWindowClosed THEN "quit" ELSE pc
    /\ last' = Hist("closeEvent", "", 0, FALSE, NoWindow, last.fresh)
    /\ UNCHANGED <<file, writable, cfg, queue>>

\* "Show Controls" or a click on the tray icon.
ShowPanel ==
    /\ pc = "running"
    /\ ~ui.visible
    /\ ui' = show_panel(ui)
    /\ w' = Begin(w)
    /\ last' = Hist("show_panel", "", 0, FALSE, NoWindow, last.fresh)
    /\ UNCHANGED <<pc, file, writable, cfg, queue>>

\* "Quit": clear the hotkeys, stop the player, leave the event loop.
QuitApp ==
    /\ pc = "running"
    /\ \E cleared \in BOOLEAN :
         LET r == quit_app(Begin(w), ui, cleared)
         IN  /\ ui' = r.ui
             /\ w' = r.w
             /\ pc' = IF r.steps /= <<>> /\ r.steps[Len(r.steps)] = "quit"
                      THEN "quit" ELSE pc
             /\ last' = [Hist("quit_app", "", 0, ~cleared, NoWindow, last.fresh)
                            EXCEPT !.steps = r.steps]
    /\ UNCHANGED <<file, writable, cfg, queue>>

\* The player's input thread reports that the media is open and playing.
EngineOpened ==
    /\ pc \in {"running", "panel_created", "api"}
    /\ w.p_state = "Opening"
    /\ w' = [w EXCEPT !.p_state = "Playing", !.cmds = <<>>]
    /\ last' = Hist("engine", "", 0, FALSE, NoWindow, last.fresh)
    /\ UNCHANGED <<pc, file, writable, cfg, ui, queue>>

Next ==
    \/ MainLoadConfig
    \/ MainCreateWallpaper
    \/ MainShowWallpaper
    \/ MainCreatePanel
    \/ MainShowPanel
    \/ \E path \in DialogPaths : OnLoad(path)
    \/ OnPlayPause
    \/ OnSetDefault
    \/ \E index \in Indexes : OnSpeedChange(index)
    \/ OnAspectToggle
    \/ HotkeyPress
    \/ HotkeyDispatch
    \/ HideToTray
    \/ CloseEvent
    \/ ShowPanel
    \/ QuitApp
    \/ EngineOpened

Spec == Init /\ [][Next]_vars

----------------------------------------------------------------------------
(* WallpaperWindow on its own: a window built from a loaded config and     *)
(* shown, whose methods a caller invokes in any order with any argument,   *)
(* and whose player may change its rate between two calls.  last.pre is    *)
(* the window as the call found it.                                        *)

\* The files a window's config is loaded from: those that name no video (the
\* window does not read the videos of its config) and whose speed float()
\* accepts.
SurfaceFiles ==
    {f \in Files : /\ f.rec.last_video = JAbsent
                   /\ f.rec.default_video = JAbsent
                   /\ float_ok(load_config(f).speed)}

SurfaceInit ==
    /\ pc = "api"
    /\ file \in SurfaceFiles
    /\ writable = TRUE
    /\ cfg = load_config(file)
    /\ w = showEvent(WallpaperWindow_init(cfg))
    /\ ui = NoPanel
    /\ queue = <<>>
    /\ last = Hist("init", "", 0, FALSE, NoWindow, FALSE)

CallLoad(path) ==
    /\ pc = "api"
    /\ w' = load(Begin(w), path)
    /\ last' = Hist("load", path, 0, load_raises(path), Begin(w),
                    IF load_raises(path) THEN last.fresh ELSE TRUE)
    /\ UNCHANGED <<pc, file, writable, cfg, ui, queue>>

CallPlay ==
    /\ pc = "api"
    /\ w' = play(Begin(w))
    /\ last' = Hist("play", "", 0, FALSE, Begin(w), FALSE)
    /\ UNCHANGED <<pc, file, writable, cfg, ui, queue>>

CallPause ==
    /\ pc = "api"
    /\ w' = pause(Begin(w))
    /\ last' = Hist("pause", "", 0, FALSE, Begin(w), last.fresh)
    /\ UNCHANGED <<pc, file, writable, cfg, ui, queue>>

CallStop ==
    /\ pc = "api"
    /\ w' = stop(Begin(w))
    /\ last' = Hist("stop", "", 0, FALSE, Begin(w), last.fresh)
    /\ UNCHANGED <<pc, file, writable, cfg, ui, queue>>

CallSetSpeed(speed) ==
    /\ pc = "api"
    /\ w' = set_speed(Begin(w), speed)
    /\ last' = Hist("set_speed", "", speed, FALSE, Begin(w), last.fresh)
    /\ UNCHANGED <<pc, file, writable, cfg, ui, queue>>

CallToggleAspect ==
    /\ pc = "api"
    /\ w' = toggle_aspect(Begin(w))
    /\ last' = Hist("toggle_aspect", "", 0, FALSE, Begin(w), last.fresh)
    /\ UNCHANGED <<pc, file, writable, cfg, ui, queue>>

\* Between two calls the player changes its rate by itself (an internal
\* reset, an input that settles on another rate). libvlc gives the window no
\* guarantee that the rate it set stays; play() is written against that
\* ("apply rate again after play").
EngineRateChanged(r) ==
    /\ pc = "api"
    /\ w.p_media /= NoMedia
    /\ r /= w.p_rate
    /\ w' = [w EXCEPT !.p_rate = r, !.cmds = <<>>]
    /\ last' = Hist("engine", "", 0, FALSE, NoWindow, last.fresh)
    /\ UNCHANGED <<pc, file, writable, cfg, ui, queue>>

SurfaceNext ==
    \/ \E path \in Paths : CallLoad(path)
    \/ CallPlay
    \/ CallPause
    \/ CallStop
    \/ \E speed \in CallerRates : CallSetSpeed(speed)
    \/ CallToggleAspect
    \/ EngineOpened
    \/ \E r \in Rates : EngineRateChanged(r)

SurfaceSpec == SurfaceInit /\ [][SurfaceNext]_vars

----------------------------------------------------------------------------
(* The settings store on its own: save_config and load_config called in    *)
(* any order over any file, with any well-formed config.                   *)

ValidConfigs ==
    [last_video : {PyStr(p) : p \in Paths},
     default_video : {PyStr(p) : p \in Paths},
     speed : {PyFloat(r) : r \in Rates},
     aspect_mode : {PyStr("fit"), PyStr("keep_aspect")}]

StoreInit ==
    /\ pc = "store"
    /\ file \in Files
    /\ writable \in BOOLEAN
    /\ cfg = DEFAULT_CONFIG
    /\ w = NoWindow
    /\ ui = NoPanel
    /\ queue = <<>>
    /\ last = Hist("init", "", 0, FALSE, NoWindow, FALSE)

\* save_config(s)
StoreSave(s) ==
    /\ pc = "store"
    /\ cfg' = s
    /\ file' = save_config(s, file, writable)
    /\ last' = Hist("save_config", "", 0, FALSE, NoWindow, FALSE)
    /\ UNCHANGED <<pc, writable, w, ui, queue>>

\* cfg = load_config()
StoreLoad ==
    /\ pc = "store"
    /\ cfg' = load_config(file)
    /\ last' = Hist("load_config", "", 0, FALSE, NoWindow, FALSE)
    /\ UNCHANGED <<pc, file, writable, w, ui, queue>>

StoreNext ==
    \/ \E s \in ValidConfigs : StoreSave(s)
    \/ StoreLoad

StoreSpec == StoreInit /\ [][StoreNext]_vars

----------------------------------------------------------------------------
(* Properties.                                                             *)

Commands(x) == {x.cmds[i].c : i \in DOMAIN x.cmds}

\* C1: load(path) with a path that does not exist raises FileNotFoundError
\* and leaves every field of the window and the state of its player as the
\* call found them, sending the player nothing. (SurfaceSpec)
C1_LoadMissingRaisesAndKeepsState ==
    (last.op = "load" /\ ~exists(last.s)) =>
        /\ last.exc
        /\ Surface(w) = last.pre
        /\ w.cmds = <<>>

\* C1 witness: a load of a missing file failed while another video played.
C1_Witness ==
    /\ last.op = "load" /\ last.exc
    /\ w.current_video_path = "a.mp4"
    /\ is_playing(w)

\* C2: after load(validPath) returns, from any state, current_video_path is
\* validPath and is_playing() is false, and it stays false until play() is
\* called (last.fresh: a load succeeded and play() was not called since).
\* (SurfaceSpec)
C2_LoadDoesNotStartPlayback ==
    /\ (last.op = "load" /\ ~last.exc) =>
           (w.current_video_path = last.s /\ ~is_playing(w))
    /\ last.fresh => ~is_playing(w)

\* C2 witness: a load over another video that was playing.
C2_Witness ==
    /\ last.op = "load" /\ ~last.exc
    /\ is_playing(last.pre)
    /\ last.pre.current_video_path /= ""
    /\ last.pre.current_video_path /= last.s

\* The window after __init__ loaded and played path, and after it loaded none.
C3_Started(path) ==
    /\ w.current_video_path = path
    /\ w.media = path
    /\ w.p_media = path
    /\ "play" \in Commands(w)
    /\ w.p_state = "Opening"

C3_NothingLoaded ==
    /\ w.cmds = <<>>
    /\ w.current_video_path = ""
    /\ w.media = NoMedia
    /\ w.p_media = NoMedia
    /\ w.p_state = "NothingSpecial"

\* C3: when ControlPanel is constructed, an existing non-empty default_video
\* is loaded and played; otherwise an existing non-empty last_video is;
\* otherwise nothing is loaded and the window stays empty. (Spec)
C3_StartupSelection ==
    (last.op = "ControlPanel" /\ ~last.exc) =>
        IF truthy(cfg.default_video) /\ exists(cfg.default_video.s)
        THEN C3_Started(cfg.default_video.s)
        ELSE IF truthy(cfg.last_video) /\ exists(cfg.last_video.s)
        THEN C3_Started(cfg.last_video.s)
        ELSE C3_NothingLoaded

\* C3 witness: both videos exist and differ, and the default one was started.
C3_Witness ==
    /\ last.op = "ControlPanel" /\ ~last.exc
    /\ cfg.default_video = PyStr("b.mp4")
    /\ cfg.last_video = PyStr("a.mp4")
    /\ w.current_video_path = "b.mp4"

\* C4: play() is a no-op whenever current_video_path is empty, before any
\* load and after stop(): it sends the player no play command and changes
\* nothing. (SurfaceSpec)
C4_PlayOnEmptyIsNoOp ==
    (last.op = "play" /\ last.pre.current_video_path = "") =>
        /\ "play" \notin Commands(w)
        /\ Surface(w) = last.pre

\* C5: pause() called while the player is not playing is a no-op: it sends
\* the player nothing, the player stays not playing and no field changes.
\* (SurfaceSpec)
C5_PauseWhenNotPlayingIsNoOp ==
    (last.op = "pause" /\ ~is_playing(last.pre)) =>
        /\ w.cmds = <<>>
        /\ ~is_playing(w)
        /\ Surface(w) = last.pre

\* C6: after stop() returns, from any state, current_video_path is empty, no
\* media remains bound to the window or its player, and the player is not
\* playing. (SurfaceSpec)
C6_StopLeavesEmpty ==
    last.op = "stop" =>
        /\ w.current_video_path = ""
        /\ w.media = NoMedia
        /\ w.p_media = NoMedia
        /\ ~is_playing(w)

\* C7: in every reachable state the window's rate and the config's speed are
\* each one of 0.5, 1.0, 1.5, 2.0, and so is the rate of the player. (Spec)
C7_RateAlwaysSupported ==
    pc \in {"wallpaper_created", "wallpaper_shown", "panel_created",
            "running", "quit"} =>
        /\ w.speed \in Rates
        /\ w.p_rate \in Rates
        /\ float_ok(cfg.speed) /\ float(cfg.speed) \in Rates

\* C8: for every content of the settings file, startup does not terminate
\* the process, and a missing or corrupt file yields the default record.
\* (Spec)
C8_StartupNeverFatal ==
    /\ pc /= "crashed"
    /\ (pc = "config_loaded" /\ file.kind \in {"missing", "corrupt"}) =>
           cfg = DEFAULT_CONFIG

\* C9: when the Load action's wallpaper.load(path) fails, last_video in the
\* config and in the settings file is what it was before the action. (Spec)
C9_FailedLoadKeepsLastVideo ==
    [][(last'.op = "on_load" /\ last'.exc) =>
           (cfg'.last_video = cfg.last_video /\ file' = file)]_vars

\* C10: toggle_aspect() is its own inverse: once it has been called, calling
\* it again gives back the aspect_mode and the player's scale and aspect
\* ratio of the mode before the first call, and the first call's result
\* differs from that mode. (SurfaceSpec)
C10_ToggleAspectIsOwnInverse ==
    last.op = "toggle_aspect" =>
        LET again == toggle_aspect(Begin(w))
            before == apply_aspect_mode(last.pre)
        IN  /\ w.aspect_mode /= last.pre.aspect_mode
            /\ again.aspect_mode = last.pre.aspect_mode
            /\ again.p_scale = before.p_scale
            /\ again.p_aspect = before.p_aspect

\* C11: set_speed(r) with r one of 0.5, 1.0, 1.5, 2.0, called in any state,
\* makes the window's rate r and sends the player exactly set_rate(r); a
\* second call with the same r sends the same and leaves the window and the
\* player's rate as the first call left them. (SurfaceSpec)
C11_SetSpeedSetsAndIsIdempotent ==
    (last.op = "set_speed" /\ last.n \in Rates) =>
        LET again == set_speed(Begin(w), last.n)
        IN  /\ w.speed = last.n
            /\ w.p_rate = last.n
            /\ w.cmds = <<Cmd("set_rate", last.n, "")>>
            /\ [Surface(w) EXCEPT !.speed = last.pre.speed,
                                  !.p_rate = last.pre.p_rate] = last.pre
            /\ again.cmds = w.cmds
            /\ Surface(again) = Surface(w)

\* C11 witness: set_speed(1.0) on a playing window whose player ran at
\* another rate.
C11_Witness ==
    /\ last.op = "set_speed" /\ last.n = 10
    /\ last.pre.p_rate /= 10
    /\ is_playing(w)

C13_SameValue(v, j) ==
    /\ v.n = j.n
    /\ v.s = j.s
    /\ v.t = (CASE j.t = "number" -> "float"
                [] j.t = "string" -> "str"
                [] j.t = "null" -> "NoneType")

\* C13: load_config() on a file that parses as an object but lacks some keys
\* returns a config with all four keys, where each key of the file has the
\* file's value and each other key its default; without default_video in
\* the file the config's default_video is "". (StoreSpec)
C13_LoadFillsMissingKeys ==
    (last.op = "load_config" /\ file.kind = "record") =>
        /\ DOMAIN cfg = Keys
        /\ \A k \in Keys :
               IF file.rec[k] = JAbsent THEN cfg[k] = DEFAULT_CONFIG[k]
               ELSE C13_SameValue(cfg[k], file.rec[k])
        /\ file.rec.default_video = JAbsent => cfg.default_video = PyStr("")

\* C13 witness: a file with a speed and a last_video and nothing else.
C13_Witness ==
    /\ last.op = "load_config"
    /\ file.kind = "record"
    /\ KeysIn(file.rec) = {"speed", "last_video"}
    /\ cfg.speed = PyFloat(15)
    /\ cfg.last_video = PyStr("a.mp4")
    /\ cfg.default_video = PyStr("")
    /\ cfg.aspect_mode = PyStr("fit")

\* What C14 says of the button and of the config, without the file: the
\* button is enabled only while a video is loaded, and the action sets
\* default_video to current_video_path and changes nothing else.
C14_ButtonOnlyWithVideo ==
    (pc \in {"panel_created", "running"} /\ ui.btn_setdefault_enabled) =>
        w.current_video_path /= ""

C14_SetsDefaultOnly ==
    /\ cfg' = [cfg EXCEPT !.default_video = PyStr(w.current_video_path)]
    /\ Surface(w') = Surface(w)
    /\ ui'.btn_playpause_text = ui.btn_playpause_text
    /\ pc' = pc

\* C14 as stated: "Set as Default" is enabled only while a video is loaded
\* (current_video_path non-empty); the action changes default_video, only
\* to current_video_path, and persists it, leaving last_video, speed,
\* aspect_mode and the playback state as they were. (Spec)
C14_SetDefaultPersists ==
    /\ []C14_ButtonOnlyWithVideo
    /\ [][last'.op = "on_set_default" =>
              /\ C14_SetsDefaultOnly
              /\ file'.kind = "record"
              /\ file'.rec.default_video = JStr(w.current_video_path)]_vars

\* C14 amended: as stated, except that default_video is persisted when the
\* settings file can be written (a failed write is swallowed and leaves the
\* file as it was). (Spec)
C14_SetDefaultPersistsWhenWritable ==
    /\ []C14_ButtonOnlyWithVideo
    /\ [][last'.op = "on_set_default" =>
              /\ C14_SetsDefaultOnly
              /\ IF writable
                 THEN /\ file'.kind = "record"
                      /\ file'.rec.default_video = JStr(w.current_video_path)
                 ELSE file' = file]_vars

\* C14 witness: the playing video was made the default after a failed Load
\* had put another path in last_video.
C14_Witness ==
    /\ last.op = "on_set_default" /\ writable
    /\ w.current_video_path = "a.mp4" /\ is_playing(w)
    /\ cfg.default_video = PyStr("a.mp4")
    /\ cfg.last_video = PyStr("gone.mp4")
    /\ file.rec.default_video = JStr("a.mp4")

\* C15: closing the control window never ends the process and never changes
\* the playback state: the panel is hidden to the tray, the window and its
\* player stay as they were (a playing video keeps playing), config and file
\* are untouched; the event loop, once running, is left by Quit only. (Spec)
C15_CloseHidesAndKeepsPlaying ==
    [][/\ last'.op = "closeEvent" =>
              /\ pc' = "running"
              /\ ~ui'.visible
              /\ Surface(w') = Surface(w)
              /\ is_playing(w') = is_playing(w)
              /\ cfg' = cfg /\ file' = file /\ queue' = queue
       /\ (pc = "running" /\ pc' /= "running") =>
              (last'.op = "quit_app" /\ pc' = "quit")]_vars

\* C15 witness: the panel was closed while a video played.
C15_Witness ==
    /\ last.op = "closeEvent"
    /\ pc = "running"
    /\ ~ui.visible
    /\ is_playing(w)

\* C16: after each of load(path), play() and set_speed(r) returns with a
\* media bound, the player's rate equals the window's rate, for every rate
\* including 1.0, even if the player changed its rate since the last call.
\* (SurfaceSpec)
C16_RateReassertedOnEveryCall ==
    (last.op \in {"load", "play", "set_speed"} /\ ~last.exc
        /\ w.media /= NoMedia) =>
        w.p_rate = w.speed

C18_PressEnqueuesDispatchToggles ==
    /\ last'.op = "_on_hotkey_toggle_aspect" =>
           /\ queue' = Append(queue, "_hotkey_toggle_aspect_gui")
           /\ cfg' = cfg /\ file' = file /\ ui' = ui /\ pc' = pc
           /\ Surface(w') = Surface(w)
    /\ last'.op = "_hotkey_toggle_aspect_gui" =>
           /\ queue /= <<>> /\ queue' = Tail(queue)
           /\ w' = toggle_aspect(Begin(w))
           /\ w'.aspect_mode /= w.aspect_mode
           /\ cfg' = [cfg EXCEPT !.aspect_mode = w'.aspect_mode]
    /\ last'.op \notin {"_on_hotkey_toggle_aspect", "_hotkey_toggle_aspect_gui"}
           => queue' = queue

C20_BoundBeforeLoadAndPlay ==
    /\ w.p_hwnd => w.shown
    /\ "set_hwnd" \in Commands(w) => w.shown
    /\ (\/ w.media /= NoMedia
        \/ w.p_media /= NoMedia
        \/ w.p_state /= "NothingSpecial"
        \/ Commands(w) \cap {"set_media", "play"} /= {})
           => (w.shown /\ w.p_hwnd)

\* C20 witness: the startup load and play, on the bound window.
C20_Witness ==
    /\ last.op = "ControlPanel" /\ pc = "panel_created"
    /\ Commands(w) \cap {"set_media", "play"} = {"set_media", "play"}
    /\ w.p_state = "Opening"
    /\ w.shown /\ w.p_hwnd


\* C21: in every reachable state in which the play/pause button reads
\* "Pause" or the status line reads "Playing" (alone or followed by a file
\* name), a media is bound to the window and to its player, whether the
\* play/pause action came from the button or from the tray menu. (Spec)
C21_PlayingLabelsImplyMedia ==
    (pc \in {"panel_created", "running"}
        /\ (\/ ui.btn_playpause_text = "Pause"
            \/ ui.status \in {"Playing"} \cup
                   {"Playing: " \o name_of(p) : p \in Paths})) =>
        (w.media /= NoMedia /\ w.p_media /= NoMedia)

====
